---- MODULE Spec2Model ----
(***************************************************************************)
(* trio/_highlevel_generic.py: aclose_forcefully and StapledStream.        *)
(*                                                                         *)
(* One task runs the coroutines of the module.  Its await chain is the     *)
(* sequence `stack` (innermost frame first); a frame that finishes leaves  *)
(* its result in `ret` for the frame that awaits it.  The two halves of    *)
(* the StapledStream are stand-ins for concrete streams: each has a close  *)
(* of one of the kinds in CloseKinds.  Cancel scopes and checkpoints are   *)
(* those of trio._core.                                                    *)
(***************************************************************************)
EXTENDS Integers, Sequences, FiniteSets, TLC

\* Number of calls the caller makes on the objects in one behaviour.
MaxOps == 2

\* Largest max_bytes the caller passes to receive_some.
MaxBytes == 2

Halves == {"send_stream", "receive_stream"}

Resources == Halves \cup {"stapled"}

\* What a half's aclose does:
\*   ok          releases and returns without reaching a checkpoint
\*   raise       releases and raises BrokenStreamError before any checkpoint
\*   yield       reaches one checkpoint, then releases and returns
\*   yield_raise reaches one checkpoint, then releases and raises
\*   block       waits at a checkpoint for a condition that is never met
\*   leaky       like block, but does not release when it is cancelled
\*               (breaks the AsyncResource contract)
CloseKinds == {"ok", "raise", "yield", "yield_raise", "block", "leaky"}

\* What the send half's own send_eof does, when it has one.
EofKinds == {"ok", "raise"}

VARIABLES
    close_kind,     \* half -> kind of its aclose
    has_send_eof,   \* hasattr(send_stream, "send_eof")
    eof_kind,       \* kind of send_stream.send_eof
    stack,          \* await chain of the task, innermost frame first
    ret,            \* result a finished frame hands to its awaiter
    cancel_stack,   \* cancel scopes of the task, outermost first
    released,       \* half -> its underlying handle is released
    log,            \* calls on the halves during the current call
    checkpoints,    \* checkpoints executed during the current call
    op,             \* the caller's current (or last) call; eof: the peer
                    \* was closed when it began; cap: has_send_eof then
    outcome,        \* how that call ended
    nops,           \* calls made so far
    outer_at_call,  \* the caller's scope was cancelled when the call began
    cur,            \* the task the variables above belong to (1 or 2)
    saved,          \* those variables of the other task
    peer_closed,    \* the send half paired with receive_stream is closed
    hist            \* counts of calls since construction

vars == <<close_kind, has_send_eof, eof_kind, stack, ret, cancel_stack,
          released, log, checkpoints, op, outcome, nops, outer_at_call,
          cur, saved, peer_closed, hist>>

\* What a step of the running task leaves alone.
sched == <<cur, saved, peer_closed>>

config == <<close_kind, has_send_eof, eof_kind>>

----------------------------------------------------------------------------
\* Values and exceptions.

NoCtx == [kind |-> "none", src |-> "none", op |-> "none"]

\* Python's None.
None == [kind |-> "None", src |-> "none", op |-> "none", ctx |-> NoCtx,
         data |-> <<>>]

\* The object a half's operation returns.
HalfResult(h, o) ==
    [kind |-> "result", src |-> h, op |-> o, ctx |-> NoCtx, data |-> <<>>]

\* The bytes receive_some returns.
Bytes(h, b) ==
    [kind |-> "bytes", src |-> h, op |-> "receive_some", ctx |-> NoCtx, data |-> b]

BrokenStreamError(h, o) ==
    [kind |-> "BrokenStreamError", src |-> h, op |-> o, ctx |-> NoCtx,
     data |-> <<>>]

ClosedStreamError(h, o) ==
    [kind |-> "ClosedStreamError", src |-> h, op |-> o, ctx |-> NoCtx,
     data |-> <<>>]

\* The cancellation signal of the scope named s.
Cancelled(s) ==
    [kind |-> "Cancelled", src |-> s, op |-> "checkpoint", ctx |-> NoCtx,
     data |-> <<>>]

\* An exception raised while prev is in flight carries prev as __context__.
WithContext(e, prev) ==
    [e EXCEPT !.ctx = [kind |-> prev.kind, src |-> prev.src, op |-> prev.op]]

NoRet == [t |-> "none", v |-> None]

Return(v) == [t |-> "return", v |-> v]

Raise(e) == [t |-> "raise", v |-> e]

----------------------------------------------------------------------------
\* Frames.

\* The argument of a call: data for send_all, max_bytes for receive_some.
NoArg == [data |-> <<>>, max_bytes |-> 0]

FrameArg(fn, self, pc, a) ==
    [fn |-> fn, self |-> self, pc |-> pc, pending |-> NoRet, arg |-> a]

Frame(fn, self, pc) == FrameArg(fn, self, pc, NoArg)

Top == Head(stack)

Running(fn, pc) == stack # <<>> /\ Top.fn = fn /\ Top.pc = pc

\* The top frame awaits callee and moves to pc.
Await(callee, pc) ==
    stack' = <<callee, [Top EXCEPT !.pc = pc]>> \o Tail(stack)

\* The top frame finishes with result r.
Complete(r) ==
    /\ stack' = Tail(stack)
    /\ IF Len(stack) = 1
          THEN outcome' = r /\ ret' = NoRet
          ELSE ret' = r /\ UNCHANGED outcome

\* resource.aclose() for the resource named r.
AcloseOf(r) ==
    IF r = "stapled" THEN Frame("StapledStream.aclose", "stapled", "start")
                     ELSE Frame("aclose", r, "start")

----------------------------------------------------------------------------
\* trio._core: cancel scopes and checkpoints.

\* The outermost scope of the task whose cancel() was called.
PendingCancelScope ==
    LET cancelled == {i \in 1..Len(cancel_stack) : cancel_stack[i].cancel_called}
    IN  IF cancelled = {} THEN "none"
        ELSE cancel_stack[CHOOSE i \in cancelled : \A j \in cancelled : i <= j].name

\* Leaving the scope named s with result r: the scope absorbs its own signal.
CancelScopeExit(s, r) ==
    IF r.t = "raise" /\ r.v.kind = "Cancelled" /\ r.v.src = s
       THEN Return(None)
       ELSE r

----------------------------------------------------------------------------
\* The halves.

\* The close of half h is cancelled by scope s: the handle is released
\* (unless the half is leaky) and the signal goes on.
CloseCancelled(h, s) ==
    /\ released' = IF close_kind[h] = "leaky" THEN released
                   ELSE [released EXCEPT ![h] = TRUE]
    /\ log' = Append(log, <<h, "aclose", "cancelled">>)
    /\ Complete(Raise(Cancelled(s)))

\* The close of half h runs to its end.
CloseFinished(h, l) ==
    /\ released' = [released EXCEPT ![h] = TRUE]
    /\ IF close_kind[h] \in {"raise", "yield_raise"}
          THEN /\ log' = Append(l, <<h, "aclose", "raise">>)
               /\ Complete(Raise(BrokenStreamError(h, "aclose")))
          ELSE /\ log' = Append(l, <<h, "aclose", "return">>)
               /\ Complete(Return(HalfResult(h, "aclose")))

\* half.aclose() is entered.
half_aclose ==
    /\ Running("aclose", "start")
    /\ LET h == Top.self
           l == Append(log, <<h, "aclose", "call">>)
       IN  IF close_kind[h] \in {"ok", "raise"}
              THEN CloseFinished(h, l)
              ELSE /\ stack' = <<[Top EXCEPT !.pc = "checkpoint"]>> \o Tail(stack)
                   /\ log' = l
                   /\ UNCHANGED <<released, ret, outcome>>
    /\ hist' = [hist EXCEPT !.closes[Top.self] = @ + 1]
    /\ UNCHANGED <<config, sched, cancel_stack, checkpoints, op, nops, outer_at_call>>

\* The close reaches its checkpoint: a pending cancellation is delivered,
\* otherwise the task is parked.
checkpoint ==
    /\ Running("aclose", "checkpoint")
    /\ checkpoints' = checkpoints + 1
    /\ IF PendingCancelScope # "none"
          THEN CloseCancelled(Top.self, PendingCancelScope)
          ELSE /\ stack' = <<[Top EXCEPT !.pc = "parked"]>> \o Tail(stack)
               /\ UNCHANGED <<released, log, ret, outcome>>
    /\ UNCHANGED <<config, sched, hist, cancel_stack, op, nops, outer_at_call>>

\* The scheduler runs the parked task again.
reschedule ==
    /\ Running("aclose", "parked")
    /\ close_kind[Top.self] \in {"yield", "yield_raise"}
    /\ CloseFinished(Top.self, log)
    /\ UNCHANGED <<config, sched, hist, cancel_stack, checkpoints, op, nops, outer_at_call>>

\* A scope around the parked task was cancelled: the task wakes with the signal.
cancel_wake ==
    /\ Running("aclose", "parked")
    /\ PendingCancelScope # "none"
    /\ CloseCancelled(Top.self, PendingCancelScope)
    /\ UNCHANGED <<config, sched, hist, cancel_stack, checkpoints, op, nops, outer_at_call>>

\* send_stream.send_eof().
half_send_eof ==
    /\ Running("send_eof", "start")
    /\ LET h == Top.self
           l == Append(log, <<h, "send_eof", "call">>)
       IN  IF eof_kind = "raise"
              THEN /\ log' = Append(l, <<h, "send_eof", "raise">>)
                   /\ Complete(Raise(BrokenStreamError(h, "send_eof")))
              ELSE /\ log' = Append(l, <<h, "send_eof", "return">>)
                   /\ Complete(Return(HalfResult(h, "send_eof")))
    /\ UNCHANGED <<config, sched, hist, cancel_stack, released, checkpoints, op, nops,
                   outer_at_call>>

\* The operations of a half that move data.
IoFns == {"send_all", "wait_send_all_might_not_block", "receive_some"}

\* What the peer may send in one piece.
Chunks == {<<"x">>, <<"x", "y">>}

\* The first n bytes of b.
Take(b, n) == SubSeq(b, 1, IF n < Len(b) THEN n ELSE Len(b))

\* The operation fn of half h ends with result r.
IoFinished(h, fn, l, r) ==
    /\ log' = Append(l, <<h, fn, IF r.t = "return" THEN "return"
                                 ELSE IF r.v.kind = "Cancelled" THEN "cancelled"
                                 ELSE "raise">>)
    /\ Complete(r)

\* half.send_all(data), half.wait_send_all_might_not_block() or
\* half.receive_some(max_bytes) is entered: a half closed locally raises
\* ClosedStreamError, a receive half whose peer is closed returns no bytes,
\* otherwise the operation reaches a checkpoint.
half_io ==
    /\ stack # <<>>
    /\ Top.fn \in IoFns
    /\ Top.pc = "start"
    /\ LET h  == Top.self
           fn == Top.fn
           l  == Append(log, <<h, fn, "call", Top.arg>>)
       IN  IF released[h]
              THEN /\ IoFinished(h, fn, l, Raise(ClosedStreamError(h, fn)))
                   /\ UNCHANGED checkpoints
           ELSE IF fn = "receive_some" /\ peer_closed
              THEN /\ IoFinished(h, fn, l, Return(Bytes(h, <<>>)))
                   /\ UNCHANGED checkpoints
           ELSE /\ checkpoints' = checkpoints + 1
                /\ IF PendingCancelScope # "none"
                      THEN IoFinished(h, fn, l, Raise(Cancelled(PendingCancelScope)))
                      ELSE /\ stack' = <<[Top EXCEPT !.pc = "parked"]>> \o Tail(stack)
                           /\ log' = l
                           /\ UNCHANGED <<ret, outcome>>
    /\ UNCHANGED <<config, sched, hist, cancel_stack, released, op, nops,
                   outer_at_call>>

\* The parked operation can go on: the send half takes the data, the
\* receive half gets a piece from its peer (at most max_bytes of it), or
\* sees that the peer is closed.
half_io_wake ==
    /\ stack # <<>>
    /\ Top.fn \in IoFns
    /\ Top.pc = "parked"
    /\ LET h  == Top.self
           fn == Top.fn
       IN  IF released[h]
              THEN IoFinished(h, fn, log, Raise(ClosedStreamError(h, fn)))
           ELSE IF fn # "receive_some"
              THEN IoFinished(h, fn, log, Return(HalfResult(h, fn)))
           ELSE IF peer_closed
              THEN IoFinished(h, fn, log, Return(Bytes(h, <<>>)))
           ELSE \E c \in Chunks :
                   IoFinished(h, fn, log,
                              Return(Bytes(h, Take(c, Top.arg.max_bytes))))
    /\ UNCHANGED <<config, sched, hist, cancel_stack, released, checkpoints, op,
                   nops, outer_at_call>>

\* A scope around the parked operation was cancelled.
half_io_cancel ==
    /\ stack # <<>>
    /\ Top.fn \in IoFns
    /\ Top.pc = "parked"
    /\ PendingCancelScope # "none"
    /\ IoFinished(Top.self, Top.fn, log, Raise(Cancelled(PendingCancelScope)))
    /\ UNCHANGED <<config, sched, hist, cancel_stack, released, checkpoints, op,
                   nops, outer_at_call>>

----------------------------------------------------------------------------
\* aclose_forcefully(resource).

\* aclose_forcefully_enter with cs.cancel() left out.
aclose_forcefully_enter_no_cancel ==
    /\ Running("aclose_forcefully", "start")
    /\ cancel_stack' = Append(cancel_stack, [name |-> "cs", cancel_called |-> FALSE])
    /\ Await(AcloseOf(Top.self), "await")
    /\ UNCHANGED <<config, sched, hist, ret, released, log, checkpoints, op, outcome, nops,
                   outer_at_call>>

\* aclose_forcefully_enter with the await of resource.aclose() left out.
aclose_forcefully_enter_no_close ==
    /\ Running("aclose_forcefully", "start")
    /\ Complete(Return(None))
    /\ UNCHANGED <<config, sched, hist, cancel_stack, released, log, checkpoints, op, nops,
                   outer_at_call>>

\* with _core.open_cancel_scope() as cs: cs.cancel(); await resource.aclose()
aclose_forcefully_enter ==
    /\ Running("aclose_forcefully", "start")
    /\ cancel_stack' = Append(cancel_stack, [name |-> "cs", cancel_called |-> TRUE])
    /\ Await(AcloseOf(Top.self), "await")
    /\ UNCHANGED <<config, sched, hist, ret, released, log, checkpoints, op, outcome, nops,
                   outer_at_call>>

\* aclose_forcefully_exit absorbing the signal of any scope.
aclose_forcefully_exit_any_cancel ==
    /\ Running("aclose_forcefully", "await")
    /\ ret.t # "none"
    /\ cancel_stack' = SubSeq(cancel_stack, 1, Len(cancel_stack) - 1)
    /\ Complete(IF ret.t = "raise" /\ ret.v.kind # "Cancelled"
                   THEN ret ELSE Return(None))
    /\ UNCHANGED <<config, sched, hist, released, log, checkpoints, op, nops, outer_at_call>>

\* aclose_forcefully_exit suppressing whatever the close raised.
aclose_forcefully_exit_suppress ==
    /\ Running("aclose_forcefully", "await")
    /\ ret.t # "none"
    /\ cancel_stack' = SubSeq(cancel_stack, 1, Len(cancel_stack) - 1)
    /\ Complete(Return(None))
    /\ UNCHANGED <<config, sched, hist, released, log, checkpoints, op, nops, outer_at_call>>

\* aclose_forcefully_exit leaving the scope cs on the task's cancel stack.
aclose_forcefully_exit_keep_scope ==
    /\ Running("aclose_forcefully", "await")
    /\ ret.t # "none"
    /\ LET r == CancelScopeExit("cs", ret)
       IN  Complete(IF r.t = "return" THEN Return(None) ELSE r)
    /\ UNCHANGED <<config, sched, hist, cancel_stack, released, log, checkpoints,
                   op, nops, outer_at_call>>

\* resource.aclose() has finished: the with block is left, and the function
\* ends without a return statement.
aclose_forcefully_exit ==
    /\ Running("aclose_forcefully", "await")
    /\ ret.t # "none"
    /\ cancel_stack' = SubSeq(cancel_stack, 1, Len(cancel_stack) - 1)
    /\ LET r == CancelScopeExit("cs", ret)
       IN  Complete(IF r.t = "return" THEN Return(None) ELSE r)
    /\ UNCHANGED <<config, sched, hist, released, log, checkpoints, op, nops, outer_at_call>>

----------------------------------------------------------------------------
\* StapledStream.

\* StapledStream_aclose_try with the two halves swapped.
StapledStream_aclose_try_receive_first ==
    /\ Running("StapledStream.aclose", "start")
    /\ Await(Frame("aclose", "receive_stream", "start"), "try")
    /\ UNCHANGED <<config, sched, hist, ret, cancel_stack, released, log, checkpoints, op,
                   outcome, nops, outer_at_call>>

\* StapledStream_aclose_try remembering that the send half is closed and not
\* closing it again.
StapledStream_aclose_try_once ==
    /\ Running("StapledStream.aclose", "start")
    /\ IF released["send_stream"]
          THEN /\ stack' = <<[Top EXCEPT !.pc = "try"]>> \o Tail(stack)
               /\ ret' = Return(None)
          ELSE /\ Await(Frame("aclose", "send_stream", "start"), "try")
               /\ UNCHANGED ret
    /\ UNCHANGED <<config, sched, hist, cancel_stack, released, log, checkpoints,
                   op, outcome, nops, outer_at_call>>

\* try: await self.send_stream.aclose()
StapledStream_aclose_try ==
    /\ Running("StapledStream.aclose", "start")
    /\ Await(Frame("aclose", "send_stream", "start"), "try")
    /\ UNCHANGED <<config, sched, hist, ret, cancel_stack, released, log, checkpoints, op,
                   outcome, nops, outer_at_call>>

\* StapledStream_aclose_finally as a plain sequence: the second close runs
\* only when the first returned.
StapledStream_aclose_no_finally ==
    /\ Running("StapledStream.aclose", "try")
    /\ ret.t # "none"
    /\ IF ret.t = "raise"
          THEN Complete(ret)
          ELSE /\ stack' = <<Frame("aclose", "receive_stream", "start"),
                             [Top EXCEPT !.pc = "finally", !.pending = ret]>>
                            \o Tail(stack)
               /\ ret' = NoRet
               /\ UNCHANGED outcome
    /\ UNCHANGED <<config, sched, hist, cancel_stack, released, log, checkpoints, op, nops,
                   outer_at_call>>

\* finally: await self.receive_stream.aclose()
StapledStream_aclose_finally ==
    /\ Running("StapledStream.aclose", "try")
    /\ ret.t # "none"
    /\ stack' = <<Frame("aclose", "receive_stream", "start"),
                  [Top EXCEPT !.pc = "finally", !.pending = ret]>> \o Tail(stack)
    /\ ret' = NoRet
    /\ UNCHANGED <<config, sched, hist, cancel_stack, released, log, checkpoints, op, outcome,
                   nops, outer_at_call>>

\* StapledStream_aclose_end keeping the first exception: what the second
\* close raised is dropped when the first close raised too.
StapledStream_aclose_end_first_wins ==
    /\ Running("StapledStream.aclose", "finally")
    /\ ret.t # "none"
    /\ LET pending == Top.pending
       IN  Complete(IF pending.t = "raise" THEN pending
                    ELSE IF ret.t = "raise" THEN ret ELSE Return(None))
    /\ UNCHANGED <<config, sched, hist, cancel_stack, released, log, checkpoints, op, nops,
                   outer_at_call>>

\* StapledStream_aclose_end with a return inside the finally clause: when
\* the second close returns, the exception in flight is dropped.
StapledStream_aclose_end_return_in_finally ==
    /\ Running("StapledStream.aclose", "finally")
    /\ ret.t # "none"
    /\ LET pending == Top.pending
       IN  Complete(IF ret.t = "raise"
                       THEN IF pending.t = "raise"
                               THEN Raise(WithContext(ret.v, pending.v))
                               ELSE ret
                       ELSE Return(None))
    /\ UNCHANGED <<config, sched, hist, cancel_stack, released, log, checkpoints,
                   op, nops, outer_at_call>>

\* The finally clause ends: an exception it raised replaces the one in
\* flight; otherwise the one in flight goes on; otherwise aclose returns.
StapledStream_aclose_end ==
    /\ Running("StapledStream.aclose", "finally")
    /\ ret.t # "none"
    /\ LET pending == Top.pending
       IN  Complete(IF ret.t = "raise"
                       THEN IF pending.t = "raise"
                               THEN Raise(WithContext(ret.v, pending.v))
                               ELSE ret
                       ELSE IF pending.t = "raise" THEN pending
                                                   ELSE Return(None))
    /\ UNCHANGED <<config, sched, hist, cancel_stack, released, log, checkpoints, op, nops,
                   outer_at_call>>

\* StapledStream_send_eof without the hasattr test: always the close.
StapledStream_send_eof_always_aclose ==
    /\ Running("StapledStream.send_eof", "start")
    /\ Await(Frame("aclose", "send_stream", "start"), "await")
    /\ UNCHANGED <<config, sched, hist, ret, cancel_stack, released, log, checkpoints, op,
                   outcome, nops, outer_at_call>>

\* StapledStream_send_eof falling back to the close of the whole stream.
StapledStream_send_eof_closes_both ==
    /\ Running("StapledStream.send_eof", "start")
    /\ IF has_send_eof
          THEN Await(Frame("send_eof", "send_stream", "start"), "await")
          ELSE Await(Frame("StapledStream.aclose", "stapled", "start"), "await")
    /\ UNCHANGED <<config, sched, hist, ret, cancel_stack, released, log,
                   checkpoints, op, outcome, nops, outer_at_call>>

\* StapledStream_send_eof with the capability probed once, at construction.
StapledStream_send_eof_probe_at_init ==
    /\ Running("StapledStream.send_eof", "start")
    /\ IF hist.cap0
          THEN Await(Frame("send_eof", "send_stream", "start"), "await")
          ELSE Await(Frame("aclose", "send_stream", "start"), "await")
    /\ UNCHANGED <<config, sched, hist, ret, cancel_stack, released, log,
                   checkpoints, op, outcome, nops, outer_at_call>>

\* if hasattr(self.send_stream, "send_eof"): ... else: ...
StapledStream_send_eof ==
    /\ Running("StapledStream.send_eof", "start")
    /\ IF has_send_eof
          THEN Await(Frame("send_eof", "send_stream", "start"), "await")
          ELSE Await(Frame("aclose", "send_stream", "start"), "await")
    /\ UNCHANGED <<config, sched, hist, ret, cancel_stack, released, log, checkpoints, op,
                   outcome, nops, outer_at_call>>

\* return await ...
StapledStream_send_eof_return ==
    /\ Running("StapledStream.send_eof", "await")
    /\ ret.t # "none"
    /\ Complete(ret)
    /\ UNCHANGED <<config, sched, hist, cancel_stack, released, log, checkpoints, op, nops,
                   outer_at_call>>

\* StapledStream_send_all holding a lock of the stream: it waits while the
\* other task is inside an operation of the stream.
StapledStream_send_all_exclusive ==
    /\ Running("StapledStream.send_all", "start")
    /\ saved.stack = <<>>
    /\ Await(FrameArg("send_all", "send_stream", "start", Top.arg), "await")
    /\ UNCHANGED <<config, sched, hist, ret, cancel_stack, released, log,
                   checkpoints, op, outcome, nops, outer_at_call>>

\* return await self.send_stream.send_all(data)
StapledStream_send_all ==
    /\ Running("StapledStream.send_all", "start")
    /\ Await(FrameArg("send_all", "send_stream", "start", Top.arg), "await")
    /\ UNCHANGED <<config, sched, hist, ret, cancel_stack, released, log,
                   checkpoints, op, outcome, nops, outer_at_call>>

\* return await self.send_stream.wait_send_all_might_not_block()
StapledStream_wait_send_all_might_not_block ==
    /\ Running("StapledStream.wait_send_all_might_not_block", "start")
    /\ Await(FrameArg("wait_send_all_might_not_block", "send_stream", "start",
                      NoArg), "await")
    /\ UNCHANGED <<config, sched, hist, ret, cancel_stack, released, log,
                   checkpoints, op, outcome, nops, outer_at_call>>

\* StapledStream_receive_some asking the half for one byte, whatever
\* max_bytes is.
StapledStream_receive_some_one_byte ==
    /\ Running("StapledStream.receive_some", "start")
    /\ Await(FrameArg("receive_some", "receive_stream", "start",
                      [data |-> <<>>, max_bytes |-> 1]), "await")
    /\ UNCHANGED <<config, sched, hist, ret, cancel_stack, released, log,
                   checkpoints, op, outcome, nops, outer_at_call>>

\* return await self.receive_stream.receive_some(max_bytes)
StapledStream_receive_some ==
    /\ Running("StapledStream.receive_some", "start")
    /\ Await(FrameArg("receive_some", "receive_stream", "start", Top.arg), "await")
    /\ UNCHANGED <<config, sched, hist, ret, cancel_stack, released, log,
                   checkpoints, op, outcome, nops, outer_at_call>>

Forwarders == {"StapledStream.send_all",
               "StapledStream.wait_send_all_might_not_block",
               "StapledStream.receive_some"}

\* StapledStream_forward_return turning every error of the half into a
\* BrokenStreamError.
StapledStream_forward_return_broken ==
    /\ stack # <<>>
    /\ Top.fn \in Forwarders
    /\ Top.pc = "await"
    /\ ret.t # "none"
    /\ Complete(IF ret.t = "raise" /\ ret.v.kind # "Cancelled"
                   THEN Raise(WithContext(BrokenStreamError(ret.v.src, ret.v.op),
                                          ret.v))
                   ELSE ret)
    /\ UNCHANGED <<config, sched, hist, cancel_stack, released, log, checkpoints,
                   op, nops, outer_at_call>>

\* StapledStream_forward_return without the return: the half's value is lost.
StapledStream_forward_return_no_value ==
    /\ stack # <<>>
    /\ Top.fn \in Forwarders
    /\ Top.pc = "await"
    /\ ret.t # "none"
    /\ Complete(IF ret.t = "return" THEN Return(None) ELSE ret)
    /\ UNCHANGED <<config, sched, hist, cancel_stack, released, log, checkpoints,
                   op, nops, outer_at_call>>

\* return await ...: what the half returned or raised is the result.
StapledStream_forward_return ==
    /\ stack # <<>>
    /\ Top.fn \in Forwarders
    /\ Top.pc = "await"
    /\ ret.t # "none"
    /\ Complete(ret)
    /\ UNCHANGED <<config, sched, hist, cancel_stack, released, log, checkpoints,
                   op, nops, outer_at_call>>

----------------------------------------------------------------------------
\* The caller and the other tasks.

\* The caller calls fn on the object named arg with argument a.
CallArg(fn, arg, a) ==
    /\ stack = <<>>
    /\ nops < MaxOps
    /\ stack' = <<FrameArg(fn, arg, "start", a)>>
    /\ op' = [fn |-> fn, arg |-> arg, io |-> a, eof |-> peer_closed,
              cap |-> has_send_eof]
    /\ outcome' = NoRet
    /\ log' = <<>>
    /\ checkpoints' = 0
    /\ nops' = nops + 1
    /\ outer_at_call' = cancel_stack[1].cancel_called
    /\ hist' = [hist EXCEPT
                   !.acloses = IF fn = "StapledStream.aclose"
                                  \/ (fn = "aclose_forcefully" /\ arg = "stapled")
                               THEN @ + 1 ELSE @,
                   !.direct = IF fn = "aclose_forcefully" /\ arg # "stapled"
                              THEN [@ EXCEPT ![arg] = @ + 1] ELSE @,
                   !.fallbacks = IF fn = "StapledStream.send_eof" /\ ~has_send_eof
                                 THEN @ + 1 ELSE @]
    /\ UNCHANGED <<config, sched, ret, cancel_stack, released>>

Call(fn, arg) == CallArg(fn, arg, NoArg)

call_aclose == Call("StapledStream.aclose", "stapled")

call_send_eof == Call("StapledStream.send_eof", "stapled")

call_aclose_forcefully == \E r \in Resources : Call("aclose_forcefully", r)

\* The byte strings the caller sends.
Data == {<<>>, <<"x">>, <<"x", "y">>}

call_send_all ==
    \E d \in Data :
        CallArg("StapledStream.send_all", "stapled", [data |-> d, max_bytes |-> 0])

call_wait_send_all_might_not_block ==
    Call("StapledStream.wait_send_all_might_not_block", "stapled")

call_receive_some ==
    \E n \in 1..MaxBytes :
        CallArg("StapledStream.receive_some", "stapled",
                [data |-> <<>>, max_bytes |-> n])

\* The peer closes the send half that feeds receive_stream.
peer_close ==
    /\ IF stack = <<>> THEN TRUE ELSE Top.pc = "parked"
    /\ ~peer_closed
    /\ peer_closed' = TRUE
    /\ UNCHANGED <<config, stack, ret, cancel_stack, released, log, checkpoints,
                   op, outcome, nops, outer_at_call, cur, saved, hist>>

\* Between two calls the send half gains or loses its send_eof.
set_send_eof ==
    /\ stack = <<>>
    /\ saved.stack = <<>>
    /\ nops < MaxOps
    /\ has_send_eof' = ~has_send_eof
    /\ UNCHANGED <<close_kind, eof_kind, stack, ret, cancel_stack, released, log,
                   checkpoints, op, outcome, nops, outer_at_call, sched, hist>>

\* Another task cancels the caller's scope; it can run only while the
\* caller's task is not running.
outer_cancel ==
    /\ IF stack = <<>> THEN TRUE ELSE Top.pc = "parked"
    /\ ~cancel_stack[1].cancel_called
    /\ cancel_stack' = [cancel_stack EXCEPT ![1].cancel_called = TRUE]
    /\ UNCHANGED <<config, sched, hist, stack, ret, released, log, checkpoints, op, outcome,
                   nops, outer_at_call>>

\* The task-local variables, as they are kept while the other task runs.
Context ==
    [stack |-> stack, ret |-> ret, cancel_stack |-> cancel_stack, log |-> log,
     checkpoints |-> checkpoints, op |-> op, outcome |-> outcome,
     outer_at_call |-> outer_at_call]

\* A task that has called nothing yet.
IdleContext ==
    [stack |-> <<>>, ret |-> NoRet,
     cancel_stack |-> <<[name |-> "outer", cancel_called |-> FALSE]>>,
     log |-> <<>>, checkpoints |-> 0,
     op |-> [fn |-> "none", arg |-> "none", io |-> NoArg, eof |-> FALSE,
            cap |-> FALSE],
     outcome |-> NoRet, outer_at_call |-> FALSE]

Parked(s) == s # <<>> /\ Head(s).pc = "parked"

\* The scheduler runs the other task: the running task is parked at a
\* checkpoint, or has nothing to do while the other one is parked.
switch ==
    /\ \/ Parked(stack)
       \/ stack = <<>> /\ saved.stack # <<>>
    /\ cur' = 3 - cur
    /\ saved' = Context
    /\ stack' = saved.stack
    /\ ret' = saved.ret
    /\ cancel_stack' = saved.cancel_stack
    /\ log' = saved.log
    /\ checkpoints' = saved.checkpoints
    /\ op' = saved.op
    /\ outcome' = saved.outcome
    /\ outer_at_call' = saved.outer_at_call
    /\ UNCHANGED <<config, released, nops, peer_closed, hist>>

----------------------------------------------------------------------------

Init ==
    /\ close_kind \in [Halves -> CloseKinds]
    /\ has_send_eof \in BOOLEAN
    /\ eof_kind \in EofKinds
    /\ has_send_eof \/ eof_kind = "ok"
    /\ stack = <<>>
    /\ ret = NoRet
    /\ cancel_stack = <<[name |-> "outer", cancel_called |-> FALSE]>>
    /\ released = [h \in Halves |-> FALSE]
    /\ log = <<>>
    /\ checkpoints = 0
    /\ op = [fn |-> "none", arg |-> "none", io |-> NoArg, eof |-> FALSE,
             cap |-> FALSE]
    /\ outcome = NoRet
    /\ nops = 0
    /\ outer_at_call = FALSE
    /\ cur = 1
    /\ saved = IdleContext
    /\ peer_closed = FALSE
    /\ hist = [closes |-> [h \in Halves |-> 0], acloses |-> 0,
               direct |-> [h \in Halves |-> 0], fallbacks |-> 0,
               cap0 |-> has_send_eof]

\* The steps of the task itself when it closes: aclose_forcefully,
\* StapledStream.aclose and StapledStream.send_eof.
TaskStep ==
    \/ half_aclose
    \/ checkpoint
    \/ reschedule
    \/ cancel_wake
    \/ half_send_eof
    \/ aclose_forcefully_enter
    \/ aclose_forcefully_exit
    \/ StapledStream_aclose_try
    \/ StapledStream_aclose_finally
    \/ StapledStream_aclose_end
    \/ StapledStream_send_eof
    \/ StapledStream_send_eof_return

\* The steps of the task itself when it moves data.
IoStep ==
    \/ half_io
    \/ half_io_wake
    \/ half_io_cancel
    \/ StapledStream_send_all
    \/ StapledStream_wait_send_all_might_not_block
    \/ StapledStream_receive_some
    \/ StapledStream_forward_return

\* Closing: one task closes the stream and its halves.
Next ==
    \/ call_aclose
    \/ call_send_eof
    \/ call_aclose_forcefully
    \/ outer_cancel
    \/ TaskStep

Spec == Init /\ [][Next]_vars

\* One task uses every operation of the stream, its peer closes, and the
\* send half's capability changes between calls.
NextIo ==
    \/ Next
    \/ call_send_all
    \/ call_wait_send_all_might_not_block
    \/ call_receive_some
    \/ peer_close
    \/ set_send_eof
    \/ IoStep

IoSpec == Init /\ [][NextIo]_vars

\* The closes of the halves that ConcSpec starts from: those that end
\* without a cancellation.
ConcCloseKinds == {"ok", "yield"}

InitConc == Init /\ \A h \in Halves : close_kind[h] \in ConcCloseKinds

\* Two tasks use the four data operations of one StapledStream.
NextConc ==
    \/ call_send_eof
    \/ call_send_all
    \/ call_wait_send_all_might_not_block
    \/ call_receive_some
    \/ peer_close
    \/ outer_cancel
    \/ switch
    \/ half_aclose
    \/ checkpoint
    \/ reschedule
    \/ cancel_wake
    \/ half_send_eof
    \/ StapledStream_send_eof
    \/ StapledStream_send_eof_return
    \/ IoStep

ConcSpec == InitConc /\ [][NextConc]_vars

\* The scheduler runs a task that can run.
FairSpec == Spec /\ WF_vars(TaskStep)

----------------------------------------------------------------------------
\* What the properties below speak about.

InLog(e) == \E i \in 1..Len(log) : log[i] = e

Count(e) == Cardinality({i \in 1..Len(log) : log[i] = e})

CloseEnds == {"return", "raise", "cancelled"}

\* The caller's call of fn has finished.
Done(fn) == stack = <<>> /\ op.fn = fn /\ outcome.t # "none"

\* StapledStream.aclose has just finished, called by the caller or by
\* aclose_forcefully; AcloseResult is how it finished.
AcloseReturned ==
    \/ Done("StapledStream.aclose")
    \/ /\ Running("aclose_forcefully", "await")
       /\ Top.self = "stapled"
       /\ ret.t # "none"

AcloseResult == IF stack = <<>> THEN outcome ELSE ret

\* The caller's call is StapledStream.aclose, directly or through
\* aclose_forcefully.
InStapledAclose ==
    \/ op.fn = "StapledStream.aclose"
    \/ op.fn = "aclose_forcefully" /\ op.arg = "stapled"

HalvesOf(r) == IF r = "stapled" THEN Halves ELSE {r}

\* C1: whenever StapledStream.aclose has returned or raised, the receive
\* half's aclose has been invoked and has finished, whatever the send half's
\* aclose did (returned, raised BrokenStreamError, or was cancelled).
C1_ReceiveAlwaysClosed ==
    AcloseReturned =>
        /\ InLog(<<"receive_stream", "aclose", "call">>)
        /\ \E e \in CloseEnds : InLog(<<"receive_stream", "aclose", e>>)

C1_Witness ==
    /\ Done("StapledStream.aclose")
    /\ InLog(<<"send_stream", "aclose", "cancelled">>)
    /\ InLog(<<"receive_stream", "aclose", "call">>)

BothRaised ==
    /\ InLog(<<"send_stream", "aclose", "raise">>)
    /\ InLog(<<"receive_stream", "aclose", "raise">>)

C3_SendThenReceive ==
    InStapledAclose =>
        /\ \A i \in 1..Len(log) :
              /\ log[i] = <<"send_stream", "aclose", "call">> => i = 1
              /\ log[i][1] = "receive_stream" =>
                    \E j \in 1..(i - 1) :
                        /\ log[j][1] = "send_stream"
                        /\ log[j][3] \in CloseEnds
        /\ Cardinality({i \in 1..Len(stack) : stack[i].fn = "aclose"}) <= 1

C3_Witness ==
    /\ op.fn = "StapledStream.aclose"
    /\ Running("aclose", "parked")
    /\ Top.self = "receive_stream"
    /\ InLog(<<"send_stream", "aclose", "raise">>)

\* aclose_forcefully is running for the caller / has finished.
ForcefulActive == op.fn = "aclose_forcefully" /\ stack # <<>>

ForcefulDone == Done("aclose_forcefully")

\* The resource keeps the AsyncResource contract: a cancelled close still
\* releases the handle.
Honours(r) == \A h \in HalvesOf(r) : close_kind[h] # "leaky"

Released(r) == \A h \in HalvesOf(r) : released[h]

\* A cancellation signal was delivered inside the resource's close, and the
\* close let it out: no half raised an error of its own after the delivery.
SignalLeftClose ==
    \E i \in 1..Len(log) :
        /\ log[i][3] = "cancelled"
        /\ \A j \in (i + 1)..Len(log) : log[j][3] # "raise"

\* C4: aclose_forcefully on a resource that keeps the contract never waits
\* at a checkpoint and always finishes, also when the resource's close would
\* otherwise wait for ever.
C4_ForcefulTerminates ==
    /\ []((ForcefulActive /\ Honours(op.arg)) => Top.pc # "parked")
    /\ (ForcefulActive /\ Honours(op.arg)) ~> ForcefulDone

C4_Witness ==
    /\ ForcefulDone
    /\ op.arg = "send_stream"
    /\ close_kind["send_stream"] = "block"
    /\ checkpoints = 1

\* C5: whenever aclose_forcefully has returned or raised on a resource that
\* keeps the contract, the resource is released.
C5_ReleasedWhenDone ==
    (ForcefulDone /\ Honours(op.arg)) => Released(op.arg)

C5_Witness ==
    /\ ForcefulDone
    /\ op.arg = "receive_stream"
    /\ close_kind["receive_stream"] = "block"
    /\ released["receive_stream"]

C8_AlwaysCheckpoint ==
    ForcefulDone => checkpoints >= 1

\* C9: an error the resource's close raises before any checkpoint leaves
\* aclose_forcefully unchanged.
C9_ErrorPropagates ==
    ForcefulDone =>
        /\ \A h \in Halves :
              (op.arg = h /\ close_kind[h] = "raise") =>
                  outcome = Raise(BrokenStreamError(h, "aclose"))
        /\ (/\ op.arg = "stapled"
            /\ close_kind["send_stream"] = "raise"
            /\ close_kind["receive_stream"] = "ok") =>
                  outcome = Raise(BrokenStreamError("send_stream", "aclose"))

C9_Witness ==
    /\ ForcefulDone
    /\ op.arg = "send_stream"
    /\ checkpoints = 0
    /\ outcome = Raise(BrokenStreamError("send_stream", "aclose"))

\* How the last operation called on the send half ended, as a result.
SendHalfResult(o) ==
    IF InLog(<<"send_stream", o, "return">>)
       THEN Return(HalfResult("send_stream", o))
    ELSE IF InLog(<<"send_stream", o, "raise">>)
       THEN Raise(BrokenStreamError("send_stream", o))
    ELSE Raise(Cancelled("outer"))

\* C10: StapledStream.send_eof calls the send half's send_eof once and not its
\* aclose when the send half has send_eof, and otherwise its aclose once;
\* what that call returned or raised is what send_eof returns or raises.
C10_SendEofDispatch ==
    Done("StapledStream.send_eof") =>
        LET used  == IF has_send_eof THEN "send_eof" ELSE "aclose"
            other == IF has_send_eof THEN "aclose" ELSE "send_eof"
        IN  /\ Count(<<"send_stream", used, "call">>) = 1
            /\ Count(<<"send_stream", other, "call">>) = 0
            /\ outcome = SendHalfResult(used)

C10_Witness ==
    /\ Done("StapledStream.send_eof")
    /\ has_send_eof
    /\ outcome = Return(HalfResult("send_stream", "send_eof"))

\* The entries of the log that are calls.
Calls == {i \in 1..Len(log) : log[i][3] = "call"}

\* The receive half's aclose was asked for: by StapledStream.aclose, or by
\* aclose_forcefully on the half itself.
ReceiveCloseAsked == hist.acloses > 0 \/ hist.direct["receive_stream"] > 0

\* C11: StapledStream.send_eof calls nothing on the receive half, on either
\* path; as long as neither StapledStream.aclose nor a close of the receive
\* half itself was called, the receive half's aclose has never run and the
\* half is open.
C11_SendEofLeavesReceive ==
    /\ op.fn = "StapledStream.send_eof" =>
          \A i \in 1..Len(log) : log[i][1] # "receive_stream"
    /\ ~ReceiveCloseAsked =>
          /\ hist.closes["receive_stream"] = 0
          /\ ~released["receive_stream"]

C11_Witness ==
    /\ Done("StapledStream.send_eof")
    /\ hist.fallbacks = 1
    /\ released["send_stream"]
    /\ ~released["receive_stream"]

\* C12: once StapledStream.aclose or a send_eof that fell back to the close
\* has closed the send half (a half that keeps the contract), send_all raises
\* the send half's ClosedStreamError as it is.
C12_SendAllAfterClose ==
    (/\ Done("StapledStream.send_all")
     /\ hist.acloses + hist.fallbacks > 0
     /\ Honours("send_stream")) =>
        outcome = Raise(ClosedStreamError("send_stream", "send_all"))

C12_Witness ==
    /\ Done("StapledStream.send_all")
    /\ hist.fallbacks = 1
    /\ hist.acloses = 0
    /\ outcome = Raise(ClosedStreamError("send_stream", "send_all"))

\* C13: a receive_some called after the paired send half was closed returns
\* no bytes, on the first such call and on every later one (the receive half
\* itself being open).
C13_ReceiveEof ==
    (/\ Done("StapledStream.receive_some")
     /\ op.eof
     /\ ~released["receive_stream"]) =>
        outcome = Return(Bytes("receive_stream", <<>>))

C13_Witness ==
    /\ Done("StapledStream.receive_some")
    /\ op.eof
    /\ nops = 2
    /\ hist.acloses = 0
    /\ outcome = Return(Bytes("receive_stream", <<>>))

\* The half and the operation a forwarding method of StapledStream uses.
HalfOf(fn) ==
    IF fn = "StapledStream.receive_some" THEN "receive_stream" ELSE "send_stream"

HalfOpOf(fn) ==
    IF fn = "StapledStream.send_all" THEN "send_all"
    ELSE IF fn = "StapledStream.receive_some" THEN "receive_some"
    ELSE "wait_send_all_might_not_block"

\* C14: a finished send_all, wait_send_all_might_not_block or receive_some
\* has made one call, of the operation of the same name, on its half, with
\* the caller's argument; a finished send_eof has made one call, on the send
\* half; none of the four has called anything on the other half.
C14_OneCallOneHalf ==
    /\ (op.fn \in Forwarders /\ Done(op.fn)) =>
          /\ Cardinality(Calls) = 1
          /\ log[1] = <<HalfOf(op.fn), HalfOpOf(op.fn), "call", op.io>>
    /\ Done("StapledStream.send_eof") =>
          /\ Cardinality(Calls) = 1
          /\ log[1][2] \in {"send_eof", "aclose"}
    /\ op.fn \in Forwarders \cup {"StapledStream.send_eof"} =>
          \A i \in 1..Len(log) : log[i][1] = HalfOf(op.fn)

C14_Witness ==
    /\ Done("StapledStream.receive_some")
    /\ op.io.max_bytes = 2
    /\ log[1] = <<"receive_stream", "receive_some", "call",
                  [data |-> <<>>, max_bytes |-> 2]>>
    /\ outcome = Return(Bytes("receive_stream", <<"x", "y">>))

\* C15: every send_eof follows the capability the send half has when that
\* send_eof is called, also when it differs from the one it had at
\* construction.
C15_ProbeAtCall ==
    Done("StapledStream.send_eof") =>
        /\ op.cap => log[1] = <<"send_stream", "send_eof", "call">>
        /\ ~op.cap => log[1] = <<"send_stream", "aclose", "call">>

C15_Witness ==
    /\ Done("StapledStream.send_eof")
    /\ op.cap # hist.cap0
    /\ op.cap
    /\ InLog(<<"send_stream", "send_eof", "call">>)

\* A frame of aclose_forcefully is on the task's await chain.
InForceful == \E i \in 1..Len(stack) : stack[i].fn = "aclose_forcefully"

StapledAcloseActive == InStapledAclose /\ stack # <<>>

\* C17: with two halves that keep the contract, a StapledStream.aclose that
\* runs under a cancelled scope (that of aclose_forcefully or the caller's)
\* always finishes, and when it has finished both halves are released.
C17_StapledKeepsContract ==
    /\ []((AcloseReturned /\ Honours("stapled")) => Released("stapled"))
    /\ (StapledAcloseActive /\ Honours("stapled") /\ PendingCancelScope # "none")
          ~> (stack = <<>>)

C17_Witness ==
    /\ ForcefulDone
    /\ op.arg = "stapled"
    /\ close_kind["send_stream"] = "block"
    /\ close_kind["receive_stream"] = "block"
    /\ Released("stapled")
    /\ checkpoints = 2

\* C18: when one half's close raises and the other's returns, that one
\* error leaves StapledStream.aclose as it is (the receive half's close has
\* finished by then); aclose returns, and returns None, only when both closes
\* returned.
C18_SingleErrorPropagates ==
    AcloseReturned =>
        /\ (/\ InLog(<<"send_stream", "aclose", "raise">>)
            /\ InLog(<<"receive_stream", "aclose", "return">>)) =>
               AcloseResult = Raise(BrokenStreamError("send_stream", "aclose"))
        /\ (/\ InLog(<<"send_stream", "aclose", "return">>)
            /\ InLog(<<"receive_stream", "aclose", "raise">>)) =>
               AcloseResult = Raise(BrokenStreamError("receive_stream", "aclose"))
        /\ AcloseResult.t = "return" <=>
               /\ InLog(<<"send_stream", "aclose", "return">>)
               /\ InLog(<<"receive_stream", "aclose", "return">>)
        /\ AcloseResult.t = "return" => AcloseResult = Return(None)

C18_Witness ==
    /\ Done("StapledStream.aclose")
    /\ InLog(<<"send_stream", "aclose", "return">>)
    /\ outcome = Raise(BrokenStreamError("receive_stream", "aclose"))

\* C19: closes are not deduplicated: when the task is not in the middle of a
\* step, the send half's aclose has been called once for every
\* StapledStream.aclose, once for every send_eof that fell back to it (and
\* once for every aclose_forcefully on the half itself); when every call has
\* finished the same holds of the receive half and StapledStream.aclose.
C19_ClosesNotDeduplicated ==
    /\ (stack = <<>> \/ Parked(stack)) =>
          hist.closes["send_stream"] =
              hist.fallbacks + hist.acloses + hist.direct["send_stream"]
    /\ stack = <<>> =>
          hist.closes["receive_stream"] =
              hist.acloses + hist.direct["receive_stream"]

C19_Witness ==
    /\ Done("StapledStream.aclose")
    /\ hist.fallbacks = 1
    /\ hist.acloses = 1
    /\ hist.closes["send_stream"] = 2
    /\ hist.closes["receive_stream"] = 1

\* C20: while the other task is suspended inside an operation of the
\* StapledStream, a task that is inside one and not parked at a checkpoint
\* of a half can always take its next step: the stream itself never makes
\* it wait.
C20_NoSynchronization ==
    (stack # <<>> /\ ~Parked(stack) /\ Parked(saved.stack)) =>
        ENABLED (TaskStep \/ IoStep)

C20_Witness ==
    /\ Done("StapledStream.send_all")
    /\ outcome = Return(HalfResult("send_stream", "send_all"))
    /\ Parked(saved.stack)
    /\ saved.op.fn = "StapledStream.receive_some"

====
